---------------------------- MODULE Spec2Model ----------------------------
(***************************************************************************)
(* A model of rbudget: the account value transformations (account.rs),     *)
(* the money conversion helpers (util.rs), the transaction constructors    *)
(* and occurrence predicate (transaction.rs) and the simulation iterator   *)
(* (simulation.rs).                                                        *)
(*                                                                         *)
(* Dates are chrono NaiveDate values, represented by their number of days  *)
(* from the common era (0001-01-01 is day 1), so that date + Days::new(1)  *)
(* is d + 1 and the comparison of dates is the comparison of integers.     *)
(* Currency values are the integer number of minor units (pence) that the  *)
(* currency crate stores. An f64 is represented by an exact fraction       *)
(* <<numerator, denominator>>: the values met here are far from the limits *)
(* of the f64 precision, see Hundredths.                                   *)
(***************************************************************************)
EXTENDS Integers, Sequences, FiniteSets, TLC

VARIABLES
    sim,        \* Simulation: [accounts, transactions, start]
    values,     \* SimulationIterator.values: AccountID -> pence
    date,       \* SimulationIterator.date
    emitted,    \* history: the items returned by next, in order
    applied,    \* history: per call of next, the indices of the transactions it applied
    pc,         \* "load", "iter", "panic_expect", "panic_unwrap", "call" (SpecTx), "two" (SpecTwo)
    call,       \* SpecTx: the constructor call made and its result
    query,      \* SpecTx: the last call of occurs and its result
    iters       \* SpecTwo: two SimulationIterators, each [made, sim, values, date, emitted]

vars == <<sim, values, date, emitted, applied, pc, call, query, iters>>

----------------------------------------------------------------------------
(* Bounds of the model. *)

\* Largest number of transactions a simulation is loaded with.
MaxTxns == 2
\* Largest number of calls of next on an iterator.
MaxSteps == 4
\* Number of days after a transaction's start date that occurs is queried for.
Horizon == 30
\* Number of days before a transaction's start date that occurs is queried for.
Lookback == 3

----------------------------------------------------------------------------
(* chrono::NaiveDate, as far as the program uses it. *)

IsLeapYear(y) == (y % 4 = 0 /\ y % 100 # 0) \/ y % 400 = 0

DaysInMonth(y, m) ==
    IF m = 2 THEN (IF IsLeapYear(y) THEN 29 ELSE 28)
    ELSE IF m \in {4, 6, 9, 11} THEN 30 ELSE 31

\* Days of the years 1 .. y-1.
DaysBeforeYear(y) ==
    365 * (y - 1) + ((y - 1) \div 4) - ((y - 1) \div 100) + ((y - 1) \div 400)

RECURSIVE DaysBeforeMonth(_, _)
DaysBeforeMonth(y, m) ==
    IF m = 1 THEN 0 ELSE DaysBeforeMonth(y, m - 1) + DaysInMonth(y, m - 1)

\* NaiveDate::from_ymd_opt(y, m, d).unwrap()
FromYmd(y, m, d) == DaysBeforeYear(y) + DaysBeforeMonth(y, m) + d

\* Datelike::year
YearOf(n) ==
    LET guess == ((n * 400) \div 146097) + 1
    IN  CHOOSE y \in (guess - 1)..(guess + 1) :
            DaysBeforeYear(y) < n /\ n <= DaysBeforeYear(y + 1)

\* Datelike::ordinal: the day of the year, from 1.
Ordinal(n) == n - DaysBeforeYear(YearOf(n))

\* Datelike::month
MonthOf(n) ==
    LET y == YearOf(n)
        o == Ordinal(n)
    IN  CHOOSE m \in 1..12 :
            DaysBeforeMonth(y, m) < o /\ o <= DaysBeforeMonth(y, m) + DaysInMonth(y, m)

\* Datelike::day: the day of the month, from 1.
Day(n) == Ordinal(n) - DaysBeforeMonth(YearOf(n), MonthOf(n))

\* Datelike::weekday: 0 is Monday, ..., 6 is Sunday (0001-01-01 is a Monday).
Weekday(n) == (n - 1) % 7

\* A step that leaves the date where it is.
AddNoDay(d) == d

\* date + Days::new(1)
AddOneDay(d) == d + 1

----------------------------------------------------------------------------
(* util.rs: the money conversions. *)

DateIntervals == {"Daily", "Weekly", "Monthly", "Yearly"}

Abs(x) == IF x < 0 THEN -x ELSE x

\* to_f64: the stored number of minor units, as a float, divided by 100.0.
ToF64(val) == <<val, 100>>

\* The product a * b of two floats, kept as its two factors (the integers of
\* the model checker are 32 bits wide, too narrow for the product's fraction).
FMul(a, b) == [l |-> a, r |-> b]

\* n / d for d > 0, rounded to the nearest integer.
RoundDiv(n, d) ==
    LET mag == ((2 * Abs(n)) + d) \div (2 * d)
    IN  IF n < 0 THEN -mag ELSE mag

\* format!("{:.2}", val) for the product val of to_f64(v) and a float n / d:
\* the number of hundredths nearest to v * n / d, the sign kept as the text
\* keeps it. With n = q * d + r the product is v * q + v * r / d, and v * q is
\* whole. An exact half, where the f64 rounding error decides in the program,
\* is rounded away from zero here; the values of this model never meet one.
Hundredths(val) ==
    LET v == val.l[1] * (100 \div val.l[2])
        n == val.r[1]
        d == val.r[2]
        q == Abs(n) \div d
        r == Abs(n) % d
        h == (v * q) + RoundDiv(v * r, d)
    IN  IF n < 0 THEN -h ELSE h

\* to_currency: Currency::from_str of the text with two decimals, which reads
\* the digits as minor units and a '-' anywhere as the sign.
ToCurrency(val) == Hundredths(val)

----------------------------------------------------------------------------
(* account.rs: AccountSpec. The rates are f64 fields; each is kept as the  *)
(* number of hundredths it is equal to (0.03 is 3, -1.0 is -100).          *)

AccountSpec(name, initial_value, interest, out_charge, in_charge) ==
    [name |-> name, initial_value |-> initial_value, interest |-> interest,
     out_charge |-> out_charge, in_charge |-> in_charge]

\* source with the charge subtracted from the amount, as sink does.
SourceChargeSubtracted(spec, value, out) ==
    value - ToCurrency(FMul(ToF64(out), <<100 - spec.out_charge, 100>>))

\* value - to_currency(to_f64(out) * (1.0 + self.out_charge))
Source(spec, value, out) ==
    value - ToCurrency(FMul(ToF64(out), <<100 + spec.out_charge, 100>>))

\* value + to_currency(to_f64(in_) * (1.0 - self.in_charge))
Sink(spec, value, in) ==
    value + ToCurrency(FMul(ToF64(in), <<100 - spec.in_charge, 100>>))

\* to_currency(to_f64(value) * (1.0 + (self.interest / 365.0)))
Update(spec, value) ==
    ToCurrency(FMul(ToF64(value), <<(100 * 365) + spec.interest, 100 * 365>>))

----------------------------------------------------------------------------
(* transaction.rs: Transaction, TransactionError, the constructors, occurs *)

NoDate == [some |-> FALSE, date |-> 0]
SomeDate(d) == [some |-> TRUE, date |-> d]

Transaction(value, source, sink, start, rpt, end) ==
    [value |-> value, source |-> source, sink |-> sink,
     start |-> start, rpt |-> rpt, end |-> end]

NoTransaction == Transaction(0, 0, 0, 0, "None", NoDate)

NoError == [kind |-> "none", id |-> 0, start |-> 0, end |-> 0]
InvalidAccountID(id) ==
    [kind |-> "InvalidAccountID", id |-> id, start |-> 0, end |-> 0]
DuplicateAccountID(id) ==
    [kind |-> "DuplicateAccountID", id |-> id, start |-> 0, end |-> 0]
InvalidStartEndDateCombination(start, end) ==
    [kind |-> "InvalidStartEndDateCombination", id |-> 0, start |-> start, end |-> end]

Ok(t) == [ok |-> TRUE, tx |-> t, err |-> NoError]
Err(e) == [ok |-> FALSE, tx |-> NoTransaction, err |-> e]

\* single without the check of the sink.
SingleSinkUnchecked(s, value, source, sink, d) ==
    IF source \notin DOMAIN s.accounts THEN Err(InvalidAccountID(source))
    ELSE IF source = sink THEN Err(DuplicateAccountID(source))
    ELSE Ok(Transaction(value, source, sink, d, "None", NoDate))

\* Transaction::single
Single(s, value, source, sink, d) ==
    IF source \notin DOMAIN s.accounts THEN Err(InvalidAccountID(source))
    ELSE IF sink \notin DOMAIN s.accounts THEN Err(InvalidAccountID(sink))
    ELSE IF source = sink THEN Err(DuplicateAccountID(source))
    ELSE Ok(Transaction(value, source, sink, d, "None", NoDate))

\* Transaction::repeating
Repeating(s, value, source, sink, start, rpt) ==
    LET r == Single(s, value, source, sink, start)
    IN  IF ~r.ok THEN r
        ELSE Ok([r.tx EXCEPT !.rpt = rpt])

\* repeating_until with the dates checked before the accounts.
RepeatingUntilDatesFirst(s, value, source, sink, start, rpt, end) ==
    IF end < start THEN Err(InvalidStartEndDateCombination(start, end))
    ELSE LET r == Single(s, value, source, sink, start)
         IN  IF ~r.ok THEN r
             ELSE Ok([r.tx EXCEPT !.rpt = rpt, !.end = SomeDate(end)])

\* repeating_until refusing an end date equal to the start date.
RepeatingUntilStrict(s, value, source, sink, start, rpt, end) ==
    LET r == Single(s, value, source, sink, start)
    IN  IF ~r.ok THEN r
        ELSE IF end <= start THEN Err(InvalidStartEndDateCombination(start, end))
        ELSE Ok([r.tx EXCEPT !.rpt = rpt, !.end = SomeDate(end)])

\* Transaction::repeating_until
RepeatingUntil(s, value, source, sink, start, rpt, end) ==
    LET r == Repeating(s, value, source, sink, start, rpt)
    IN  IF ~r.ok THEN r
        ELSE IF end < start THEN Err(InvalidStartEndDateCombination(start, end))
        ELSE Ok([r.tx EXCEPT !.end = SomeDate(end)])

\* The match with a transaction that does not repeat occurring on every date.
OccursRptNoneAlways(t, d) ==
    CASE t.rpt = "Daily" -> TRUE
      [] t.rpt = "Weekly" -> Weekday(d) = Weekday(t.start)
      [] t.rpt = "Monthly" -> Day(d) = Day(t.start)
      [] t.rpt = "Yearly" -> Ordinal(d) = Ordinal(t.start)
      [] t.rpt = "None" -> TRUE

\* The match with the monthly branch rolling a day the month lacks to the
\* month's last day.
OccursRptMonthlyClamped(t, d) ==
    CASE t.rpt = "Daily" -> TRUE
      [] t.rpt = "Weekly" -> Weekday(d) = Weekday(t.start)
      [] t.rpt = "Monthly" ->
             LET last == DaysInMonth(YearOf(d), MonthOf(d))
             IN  Day(d) = (IF Day(t.start) > last THEN last ELSE Day(t.start))
      [] t.rpt = "Yearly" -> Ordinal(d) = Ordinal(t.start)
      [] t.rpt = "None" -> d = t.start

\* The match with the yearly branch comparing month and day of the month.
OccursRptYearlyByMonthDay(t, d) ==
    CASE t.rpt = "Daily" -> TRUE
      [] t.rpt = "Weekly" -> Weekday(d) = Weekday(t.start)
      [] t.rpt = "Monthly" -> Day(d) = Day(t.start)
      [] t.rpt = "Yearly" -> MonthOf(d) = MonthOf(t.start) /\ Day(d) = Day(t.start)
      [] t.rpt = "None" -> d = t.start

\* The match with the weekly branch comparing the days of the month.
OccursRptWeeklyByDay(t, d) ==
    CASE t.rpt = "Daily" -> TRUE
      [] t.rpt = "Weekly" -> Day(d) = Day(t.start)
      [] t.rpt = "Monthly" -> Day(d) = Day(t.start)
      [] t.rpt = "Yearly" -> Ordinal(d) = Ordinal(t.start)
      [] t.rpt = "None" -> d = t.start

\* The match on self.rpt in Transaction::occurs.
OccursRpt(t, d) ==
    CASE t.rpt = "Daily" -> TRUE
      [] t.rpt = "Weekly" -> Weekday(d) = Weekday(t.start)
      [] t.rpt = "Monthly" -> Day(d) = Day(t.start)
      [] t.rpt = "Yearly" -> Ordinal(d) = Ordinal(t.start)
      [] t.rpt = "None" -> d = t.start

\* The end date taken as the last date of occurrence.
BeforeEndInclusive(t, d) == IF t.end.some THEN d <= t.end.date ELSE TRUE

\* self.end.map_or(true, |e| date < e)
BeforeEnd(t, d) == IF t.end.some THEN d < t.end.date ELSE TRUE

\* occurs without the match on the repetition.
OccursSinceStart(t, d) == d >= t.start /\ BeforeEnd(t, d)

\* Transaction::occurs
Occurs(t, d) == d >= t.start /\ OccursRpt(t, d) /\ BeforeEnd(t, d)

----------------------------------------------------------------------------
(* simulation.rs: Simulation and the sample data of Simulation::load. *)

Simulation(accounts, transactions, start) ==
    [accounts |-> accounts, transactions |-> transactions, start |-> start]

\* The four accounts Simulation::load inserts (amounts in pence, rates in
\* hundredths).
SampleAccounts ==
    (0 :> AccountSpec("Bank", 100000, 0, 0, 0)) @@
    (1 :> AccountSpec("Savings", 50000, 3, 0, 0)) @@
    (2 :> AccountSpec("Employer", 0, 0, -100, 0)) @@
    (3 :> AccountSpec("Costs", 0, 0, 0, 100))

\* self.start of Simulation::load.
SampleStart == FromYmd(2023, 2, 23)

\* The account mappings simulations are made with: the sample accounts, and
\* its first two accounts alone.
AccountConfigs ==
    {[a \in ids |-> SampleAccounts[a]] : ids \in {{0, 1}, {0, 1, 2, 3}}}

\* The arguments the constructors are called with while loading: the account
\* IDs of the source and of the sink (7 is in no account mapping), the
\* amounts and the dates.
LoadIds == {0, 1, 2, 7}
LoadSinks == {0, 1, 7}
LoadValues == {50000}
LoadStarts == {SampleStart - 1, SampleStart, SampleStart + 1}
LoadIntervals == {"Daily"}
LoadEnds == {SampleStart + 2}

\* The initial values of the accounts that hold money only.
InitialValuesFunded(s) ==
    [a \in {b \in DOMAIN s.accounts : s.accounts[b].initial_value # 0} |->
        s.accounts[a].initial_value]

\* Simulation::iter (and into_iter): the initial values of the iterator.
InitialValues(s) == [a \in DOMAIN s.accounts |-> s.accounts[a].initial_value]

\* self.sim.transactions.iter().filter(|t| t.occurs(self.date)): the indices
\* of the transactions visited by the first loop of next, in order.
OccurringOn(s, d) ==
    LET Test(i) == Occurs(s.transactions[i], d)
    IN  SelectSeq([i \in 1..Len(s.transactions) |-> i], Test)

\* The body of the first loop leaving out a transfer the source cannot pay.
ApplyTransactionNoOverdraft(s, vals, t) ==
    IF t.source \notin DOMAIN s.accounts \/ t.source \notin DOMAIN vals
       \/ t.sink \notin DOMAIN s.accounts \/ t.sink \notin DOMAIN vals
    THEN [ok |-> FALSE, values |-> vals]
    ELSE IF vals[t.source] < t.value THEN [ok |-> TRUE, values |-> vals]
    ELSE [ok |-> TRUE,
          values |-> [vals EXCEPT
              ![t.source] = Source(s.accounts[t.source], vals[t.source], t.value),
              ![t.sink] = Sink(s.accounts[t.sink], vals[t.sink], t.value)]]

\* The body of the first loop calling source, not sink, for the sink too.
ApplyTransactionSinkAsSource(s, vals, t) ==
    IF t.source \notin DOMAIN s.accounts \/ t.source \notin DOMAIN vals
       \/ t.sink \notin DOMAIN s.accounts \/ t.sink \notin DOMAIN vals
    THEN [ok |-> FALSE, values |-> vals]
    ELSE [ok |-> TRUE,
          values |-> [vals EXCEPT
              ![t.source] = Source(s.accounts[t.source], vals[t.source], t.value),
              ![t.sink] = Source(s.accounts[t.sink], vals[t.sink], t.value)]]

\* The body of the first loop of next for transaction t. Each unwrap of a
\* failed lookup panics: ok is FALSE then.
ApplyTransaction(s, vals, t) ==
    IF t.source \notin DOMAIN s.accounts \/ t.source \notin DOMAIN vals
    THEN [ok |-> FALSE, values |-> vals]
    ELSE LET v1 == [vals EXCEPT
                       ![t.source] = Source(s.accounts[t.source], vals[t.source], t.value)]
         IN  IF t.sink \notin DOMAIN s.accounts \/ t.sink \notin DOMAIN v1
             THEN [ok |-> FALSE, values |-> v1]
             ELSE [ok |-> TRUE,
                   values |-> [v1 EXCEPT
                       ![t.sink] = Sink(s.accounts[t.sink], v1[t.sink], t.value)]]

\* The first loop of next, over the transactions whose indices are in idx.
RECURSIVE ApplyAll(_, _, _)
ApplyAll(s, vals, idx) ==
    IF idx = <<>> THEN [ok |-> TRUE, values |-> vals]
    ELSE LET r == ApplyTransaction(s, vals, s.transactions[Head(idx)])
         IN  IF ~r.ok THEN r ELSE ApplyAll(s, r.values, Tail(idx))

\* The second loop with the daily update applied twice to every account.
UpdateAllTwice(s, vals) ==
    IF \E a \in DOMAIN vals : a \notin DOMAIN s.accounts
    THEN [ok |-> FALSE, values |-> vals]
    ELSE [ok |-> TRUE,
          values |-> [a \in DOMAIN vals |->
                         Update(s.accounts[a], Update(s.accounts[a], vals[a]))]]

\* The second loop of next: every account's daily update.
UpdateAll(s, vals) ==
    IF \E a \in DOMAIN vals : a \notin DOMAIN s.accounts
    THEN [ok |-> FALSE, values |-> vals]
    ELSE [ok |-> TRUE,
          values |-> [a \in DOMAIN vals |-> Update(s.accounts[a], vals[a])]]

\* The transactions of the date after the iterator's date.
EvaluatedDateAdvanced(d) == d + 1

\* The date whose transactions a call of next applies, for the iterator's
\* date d.
EvaluatedDate(d) == d

\* The two loops of next in the other order: the daily update first.
StepValuesUpdateFirst(s, vals, d) ==
    LET r == UpdateAll(s, vals)
    IN  IF ~r.ok THEN r ELSE ApplyAll(s, r.values, OccurringOn(s, d))

\* The two loops of next on the iterator's values, for the iterator's date d.
StepValues(s, vals, d) ==
    LET r == ApplyAll(s, vals, OccurringOn(s, EvaluatedDate(d)))
    IN  IF ~r.ok THEN r ELSE UpdateAll(s, r.values)

----------------------------------------------------------------------------
(* The simulation: loading, then iterating. *)

NoCall ==
    [fn |-> "none", value |-> 0, source |-> 0, sink |-> 0, start |-> 0,
     rpt |-> "None", end |-> 0, result |-> Err(NoError)]
NoQuery == [asked |-> FALSE, date |-> 0, result |-> FALSE]
NoIterator ==
    [made |-> FALSE, sim |-> [accounts |-> <<>>, transactions |-> <<>>, start |-> 0],
     values |-> <<>>, date |-> 0, emitted |-> <<>>]
NoIterators == [i \in {1, 2} |-> NoIterator]

Init ==
    /\ sim \in {Simulation(c, <<>>, SampleStart) : c \in AccountConfigs}
    /\ values = <<>>
    /\ date = 0
    /\ emitted = <<>>
    /\ applied = <<>>
    /\ pc = "load"
    /\ call = NoCall
    /\ query = NoQuery
    /\ iters = NoIterators

\* Simulation::load's use of a constructor's result: expect("") panics on an
\* error, and the transaction joins self.transactions otherwise.
Loaded(r) ==
    IF r.ok
    THEN /\ sim' = [sim EXCEPT !.transactions = Append(@, r.tx)]
         /\ pc' = pc
    ELSE /\ sim' = sim
         /\ pc' = "panic_expect"

LoadSingle ==
    /\ pc = "load"
    /\ Len(sim.transactions) < MaxTxns
    /\ \E v \in LoadValues, src \in LoadIds, snk \in LoadSinks, d \in LoadStarts :
           Loaded(Single(sim, v, src, snk, d))
    /\ UNCHANGED <<values, date, emitted, applied, call, query, iters>>

LoadRepeating ==
    /\ pc = "load"
    /\ Len(sim.transactions) < MaxTxns
    /\ \E v \in LoadValues, src \in LoadIds, snk \in LoadSinks, d \in LoadStarts,
          rpt \in LoadIntervals :
           Loaded(Repeating(sim, v, src, snk, d, rpt))
    /\ UNCHANGED <<values, date, emitted, applied, call, query, iters>>

LoadRepeatingUntil ==
    /\ pc = "load"
    /\ Len(sim.transactions) < MaxTxns
    /\ \E v \in LoadValues, src \in LoadIds, snk \in LoadSinks, d \in LoadStarts,
          rpt \in LoadIntervals, e \in LoadEnds :
           Loaded(RepeatingUntil(sim, v, src, snk, d, rpt, e))
    /\ UNCHANGED <<values, date, emitted, applied, call, query, iters>>

\* Simulation::iter
Iter ==
    /\ pc = "load"
    /\ pc' = "iter"
    /\ values' = InitialValues(sim)
    /\ date' = sim.start
    /\ UNCHANGED <<sim, emitted, applied, call, query, iters>>

\* SimulationIterator::next
IterNext ==
    /\ pc = "iter"
    /\ Len(emitted) < MaxSteps
    /\ LET r == StepValues(sim, values, date)
       IN  IF r.ok
           THEN /\ values' = r.values
                /\ date' = AddOneDay(date)
                /\ emitted' = Append(emitted, [values |-> values', date |-> date'])
                /\ applied' = Append(applied, OccurringOn(sim, EvaluatedDate(date)))
                /\ pc' = pc
           ELSE /\ pc' = "panic_unwrap"
                /\ UNCHANGED <<values, date, emitted, applied>>
    /\ UNCHANGED <<sim, call, query, iters>>

Next == LoadSingle \/ LoadRepeating \/ LoadRepeatingUntil \/ Iter \/ IterNext

Spec == Init /\ [][Next]_vars

----------------------------------------------------------------------------
(* The transaction constructors and occurs, called on their own. *)

CallIds == {0, 1, 2, 7}
CallValues == {50000}
CallStarts ==
    {FromYmd(2023, 1, 29), FromYmd(2023, 1, 31), FromYmd(2023, 2, 24),
     FromYmd(2023, 2, 25), FromYmd(2024, 1, 30), FromYmd(2024, 3, 1),
     FromYmd(2024, 12, 31)}
CallEndOffsets == {-1, 0, 1, 8}

\* The dates occurs is called with for transaction t.
QueryDates(t) == (t.start - Lookback)..(t.start + Horizon)

InitTx ==
    /\ sim \in {Simulation(c, <<>>, SampleStart) : c \in AccountConfigs}
    /\ values = <<>>
    /\ date = 0
    /\ emitted = <<>>
    /\ applied = <<>>
    /\ pc = "call"
    /\ call = NoCall
    /\ query = NoQuery
    /\ iters = NoIterators

CallSingle ==
    /\ pc = "call"
    /\ call.fn = "none"
    /\ \E v \in CallValues, src \in CallIds, snk \in CallIds, d \in CallStarts :
           call' = [fn |-> "single", value |-> v, source |-> src, sink |-> snk,
                    start |-> d, rpt |-> "None", end |-> 0,
                    result |-> Single(sim, v, src, snk, d)]
    /\ UNCHANGED <<sim, values, date, emitted, applied, pc, query, iters>>

CallRepeating ==
    /\ pc = "call"
    /\ call.fn = "none"
    /\ \E v \in CallValues, src \in CallIds, snk \in CallIds, d \in CallStarts,
          rpt \in DateIntervals :
           call' = [fn |-> "repeating", value |-> v, source |-> src, sink |-> snk,
                    start |-> d, rpt |-> rpt, end |-> 0,
                    result |-> Repeating(sim, v, src, snk, d, rpt)]
    /\ UNCHANGED <<sim, values, date, emitted, applied, pc, query, iters>>

CallRepeatingUntil ==
    /\ pc = "call"
    /\ call.fn = "none"
    /\ \E v \in CallValues, src \in CallIds, snk \in CallIds, d \in CallStarts,
          rpt \in DateIntervals, off \in CallEndOffsets :
           call' = [fn |-> "repeating_until", value |-> v, source |-> src,
                    sink |-> snk, start |-> d, rpt |-> rpt, end |-> d + off,
                    result |-> RepeatingUntil(sim, v, src, snk, d, rpt, d + off)]
    /\ UNCHANGED <<sim, values, date, emitted, applied, pc, query, iters>>

CallOccurs ==
    /\ pc = "call"
    /\ call.result.ok
    /\ \E d \in QueryDates(call.result.tx) :
           query' = [asked |-> TRUE, date |-> d,
                     result |-> Occurs(call.result.tx, d)]
    /\ UNCHANGED <<sim, values, date, emitted, applied, pc, call, iters>>

NextTx == CallSingle \/ CallRepeating \/ CallRepeatingUntil \/ CallOccurs

SpecTx == InitTx /\ [][NextTx]_vars

\* occurs called for dates one to four years after the start date.
LaterOffsets == {364, 365, 366, 367, 730, 731, 1095, 1096, 1460, 1461, 1462}

CallOccursLater ==
    /\ pc = "call"
    /\ call.result.ok
    /\ \E off \in LaterOffsets :
           query' = [asked |-> TRUE, date |-> call.result.tx.start + off,
                     result |-> Occurs(call.result.tx, call.result.tx.start + off)]
    /\ UNCHANGED <<sim, values, date, emitted, applied, pc, call, iters>>

NextTxLong == NextTx \/ CallOccursLater

SpecTxLong == InitTx /\ [][NextTxLong]_vars

----------------------------------------------------------------------------
(* Two iterators over one simulation and a permutation of it. The second   *)
(* loop of next walks a HashMap, whose order of iteration is not fixed: it *)
(* is chosen anew in every call.                                           *)

\* Accounts without interest or charges.
PlainAccounts ==
    (0 :> AccountSpec("Current", 2500, 0, 0, 0)) @@
    (1 :> AccountSpec("Reserve", 50000, 0, 0, 0)) @@
    (2 :> AccountSpec("Deposit", 100000, 0, 0, 0))

TwoConfigs == {SampleAccounts, PlainAccounts}
TwoSources == {0, 2}
TwoSinks == {0, 1}

\* The transactions the simulations are made of: built by the constructors,
\* single ones out of account 0 on the day after the start and daily ones
\* from the start.
TwoPool(c) ==
    LET s == Simulation(c, <<>>, SampleStart)
        results ==
            {Single(s, 50000, 0, b, SampleStart + 1) : b \in TwoSinks}
            \cup {Repeating(s, 50000, a, b, SampleStart, "Daily") :
                      a \in TwoSources, b \in TwoSinks}
    IN  {r.tx : r \in {x \in results : x.ok}}

SeqsUpTo(S, n) == UNION {[1..m -> S] : m \in 0..n}

\* The simulations whose transactions are those of s in another order.
Reorderings(s) ==
    LET n == Len(s.transactions)
        perms == {p \in [1..n -> 1..n] : \A i, j \in 1..n : p[i] = p[j] => i = j}
    IN  {[s EXCEPT !.transactions = [i \in 1..n |-> s.transactions[p[i]]]] :
            p \in perms}

\* The orders a HashMap with the keys of vals may be walked in.
WalkOrders(vals) ==
    LET keys == DOMAIN vals
        n == Cardinality(keys)
    IN  {o \in [1..n -> keys] : \A i, j \in 1..n : o[i] = o[j] => i = j}

\* Simulation::iter
NewIterator(s) ==
    [made |-> TRUE, sim |-> s, values |-> InitialValues(s), date |-> s.start,
     emitted |-> <<>>]

\* The second loop of next stopping at the first account without interest.
RECURSIVE UpdateInOrderBreak(_, _, _)
UpdateInOrderBreak(s, vals, order) ==
    IF order = <<>> THEN [ok |-> TRUE, values |-> vals]
    ELSE IF Head(order) \notin DOMAIN s.accounts THEN [ok |-> FALSE, values |-> vals]
    ELSE IF s.accounts[Head(order)].interest = 0 THEN [ok |-> TRUE, values |-> vals]
    ELSE UpdateInOrderBreak(s,
             [vals EXCEPT ![Head(order)] = Update(s.accounts[Head(order)], @)],
             Tail(order))

\* The second loop of next, walking the entries of values in the given order.
RECURSIVE UpdateInOrder(_, _, _)
UpdateInOrder(s, vals, order) ==
    IF order = <<>> THEN [ok |-> TRUE, values |-> vals]
    ELSE IF Head(order) \notin DOMAIN s.accounts THEN [ok |-> FALSE, values |-> vals]
    ELSE UpdateInOrder(s,
             [vals EXCEPT ![Head(order)] = Update(s.accounts[Head(order)], @)],
             Tail(order))

\* The two loops of next, the second in the given order.
StepValuesInOrder(s, vals, d, order) ==
    LET r == ApplyAll(s, vals, OccurringOn(s, EvaluatedDate(d)))
    IN  IF ~r.ok THEN r ELSE UpdateInOrder(s, r.values, order)

\* The end of next with one snapshot shared by all the iterators.
SteppedShared(its, i, vals) ==
    [j \in DOMAIN its |->
        IF j = i
        THEN [its[j] EXCEPT !.values = vals, !.date = AddOneDay(@),
                            !.emitted = Append(@, [values |-> vals,
                                                   date |-> AddOneDay(its[j].date)])]
        ELSE IF its[j].made THEN [its[j] EXCEPT !.values = vals] ELSE its[j]]

\* The end of next on iterator i: its values, its date and the item returned.
Stepped(its, i, vals) ==
    [its EXCEPT ![i].values = vals,
                ![i].date = AddOneDay(@),
                ![i].emitted = Append(@, [values |-> vals,
                                          date |-> AddOneDay(its[i].date)])]

InitTwo ==
    /\ sim \in {Simulation(c, txs, SampleStart) :
                   c \in TwoConfigs,
                   txs \in UNION {SeqsUpTo(TwoPool(c), MaxTxns) : c \in TwoConfigs}}
    /\ \A i \in 1..Len(sim.transactions) :
           sim.transactions[i] \in TwoPool(sim.accounts)
    /\ values = <<>>
    /\ date = 0
    /\ emitted = <<>>
    /\ applied = <<>>
    /\ pc = "two"
    /\ call = NoCall
    /\ query = NoQuery
    /\ iters = NoIterators

\* sim.clone().iter(): the first iterator.
TwoIterFirst ==
    /\ pc = "two"
    /\ ~iters[1].made
    /\ iters' = [iters EXCEPT ![1] = NewIterator(sim)]
    /\ UNCHANGED <<sim, values, date, emitted, applied, pc, call, query>>

\* The second iterator, of a simulation with the same accounts, start and
\* transactions, the transactions in any order.
TwoIterPermuted ==
    /\ pc = "two"
    /\ ~iters[2].made
    /\ \E s \in Reorderings(sim) : iters' = [iters EXCEPT ![2] = NewIterator(s)]
    /\ UNCHANGED <<sim, values, date, emitted, applied, pc, call, query>>

\* SimulationIterator::next on one of the iterators.
TwoNext ==
    /\ pc = "two"
    /\ \E i \in {1, 2} :
           /\ iters[i].made
           /\ Len(iters[i].emitted) < MaxSteps
           /\ \E order \in WalkOrders(iters[i].values) :
                  LET r == StepValuesInOrder(iters[i].sim, iters[i].values,
                                             iters[i].date, order)
                  IN  IF r.ok
                      THEN iters' = Stepped(iters, i, r.values) /\ pc' = pc
                      ELSE iters' = iters /\ pc' = "panic_unwrap"
    /\ UNCHANGED <<sim, values, date, emitted, applied, call, query>>

NextTwo == TwoIterFirst \/ TwoIterPermuted \/ TwoNext

SpecTwo == InitTwo /\ [][NextTwo]_vars

----------------------------------------------------------------------------
(* The claims about the iterator, checked under Spec. *)

\* The indices of the transactions of s that occur on date d.
OccurringSet(s, d) ==
    {i \in 1..Len(s.transactions) : Occurs(s.transactions[i], d)}

SeqRange(q) == {q[i] : i \in 1..Len(q)}

\* The values after the transactions i, i+1, ... of s that occur on date d
\* were applied to vals in their order.
RECURSIVE DayTransfers(_, _, _, _)
DayTransfers(s, vals, d, i) ==
    IF i > Len(s.transactions) THEN vals
    ELSE LET t == s.transactions[i]
             out == [vals EXCEPT
                        ![t.source] = Source(s.accounts[t.source], @, t.value)]
             in == [out EXCEPT
                       ![t.sink] = Sink(s.accounts[t.sink], @, t.value)]
         IN  DayTransfers(s, IF Occurs(t, d) THEN in ELSE vals, d, i + 1)

\* The values after one day d that began with vals: the transfers of the
\* transactions that occur on d, then every account's daily update.
DayResult(s, vals, d) ==
    LET v == DayTransfers(s, vals, d, 1)
    IN  [a \in DOMAIN s.accounts |-> Update(s.accounts[a], v[a])]

\* The snapshot the k-th call of next began with: the initial values, or the
\* snapshot emitted by the call before it.
SnapshotBefore(k) ==
    IF k = 1 THEN [a \in DOMAIN sim.accounts |-> sim.accounts[a].initial_value]
    ELSE emitted[k - 1].values

\* C1: every call of next applies exactly the transactions that occur on the
\* iterator's date D before it is advanced (the day before the emitted date),
\* each once; the k-th snapshot is the (k-1)-th after the day start + k - 1,
\* so the snapshot emitted with D + 1 is the result of the transactions
\* occurring on the dates start .. D, and of none of a later date.
C1_AppliedOccurOnDateBeforeAdvance ==
    \A k \in 1..Len(emitted) :
        /\ Len(applied) >= k
        /\ SeqRange(applied[k]) = OccurringSet(sim, emitted[k].date - 1)
        /\ Len(applied[k]) = Cardinality(OccurringSet(sim, emitted[k].date - 1))
        /\ emitted[k].values = DayResult(sim, SnapshotBefore(k), sim.start + k - 1)

\* A call of next applied a transaction and left out one that occurs on the
\* emitted date.
C1_Witness ==
    /\ \E k \in 1..Len(emitted) :
           /\ applied[k] # <<>>
           /\ \E i \in OccurringSet(sim, emitted[k].date) :
                  i \notin SeqRange(applied[k])
    /\ \E k \in 2..Len(emitted) :
           /\ applied[k] # <<>>
           /\ \E i \in OccurringSet(sim, emitted[k].date - 2) :
                  i \notin SeqRange(applied[k])

\* C2: the k-th call of next emits the date start + k days: the date advances
\* by one day per call, the emitted date is the new date, and the start date
\* is never emitted.
C2_EmittedDateIsStartPlusK ==
    /\ \A k \in 1..Len(emitted) :
           /\ emitted[k].date = sim.start + k
           /\ emitted[k].date # sim.start
    /\ pc = "iter" => date = sim.start + Len(emitted)

C2_Witness ==
    /\ pc = "iter"
    /\ Len(emitted) >= 3
    /\ emitted[3].date = sim.start + 3

\* C3: with every transaction validated by a constructor against the
\* simulation's accounts, no call of next fails and each returns an element:
\* the iterator has no terminal state.
C3_NextAlwaysReturnsAnElement ==
    /\ pc # "panic_unwrap"
    /\ pc = "iter" => StepValues(sim, values, date).ok

C3_Witness ==
    /\ pc = "iter"
    /\ Len(sim.transactions) = 2
    /\ Len(emitted) >= 3
    /\ \A k \in 1..3 : applied[k] # <<>>

\* The scenario of C4: accounts A (0: 1000.00, no interest) and B (1: 500.00,
\* interest 0.03), one single transaction of 500.00 from A to B that occurs on
\* the day after the start.
C4_Scenario ==
    /\ pc = "iter"
    /\ sim.accounts = [a \in {0, 1} |-> SampleAccounts[a]]
    /\ sim.transactions =
           <<Transaction(50000, 0, 1, sim.start + 1, "None", NoDate)>>

\* C4 as stated: the first snapshot is A = 1000.00, B = 500.03 and the second
\* A = 500.00, B = 1000.11.
C4_AsStated ==
    C4_Scenario =>
        /\ Len(emitted) >= 1 => emitted[1].values = (0 :> 100000 @@ 1 :> 50003)
        /\ Len(emitted) >= 2 => emitted[2].values = (0 :> 50000 @@ 1 :> 100011)

\* C4, amended: in the scenario the first snapshot is A = 1000.00, B = 500.04
\* and the second A = 500.00, B = 1000.12 (the transfer, then the update of
\* both accounts, each rounded to two decimals).
C4_ScenarioSnapshots ==
    C4_Scenario =>
        /\ Len(emitted) >= 1 => emitted[1].values = (0 :> 100000 @@ 1 :> 50004)
        /\ Len(emitted) >= 2 => emitted[2].values = (0 :> 50000 @@ 1 :> 100012)

C4_Witness == C4_Scenario /\ Len(emitted) >= 2

----------------------------------------------------------------------------
(* The claims about the constructors and occurs, checked under SpecTx. *)

Called == call.fn # "none"
CalledTx == call.result.tx

\* C5: the constructors report the first failing check in the order source
\* absent, sink absent, source = sink, and (repeating_until only) end < start;
\* an account error wins over the date error, and a failure returns no
\* Transaction.
C5_FirstFailingCheckInOrder ==
    Called =>
        LET r == call.result
        IN  IF call.source \notin DOMAIN sim.accounts
            THEN ~r.ok /\ r.err = InvalidAccountID(call.source) /\ r.tx = NoTransaction
            ELSE IF call.sink \notin DOMAIN sim.accounts
            THEN ~r.ok /\ r.err = InvalidAccountID(call.sink) /\ r.tx = NoTransaction
            ELSE IF call.source = call.sink
            THEN ~r.ok /\ r.err = DuplicateAccountID(call.source) /\ r.tx = NoTransaction
            ELSE IF call.fn = "repeating_until" /\ call.end < call.start
            THEN /\ ~r.ok
                 /\ r.err = InvalidStartEndDateCombination(call.start, call.end)
                 /\ r.tx = NoTransaction
            ELSE r.ok /\ r.err = NoError

\* repeating_until was called with an absent account and end < start.
C5_Witness ==
    /\ call.fn = "repeating_until"
    /\ call.source \in DOMAIN sim.accounts
    /\ call.sink \notin DOMAIN sim.accounts
    /\ call.end < call.start
    /\ call.result.err = InvalidAccountID(call.sink)

\* C6: single succeeds whenever source # sink and both accounts exist;
\* repeating fails iff single fails on the same arguments; repeating_until
\* fails iff single fails or end < start, so that end = start is accepted.
C6_FailsIffSingleFails ==
    Called =>
        LET single == Single(sim, call.value, call.source, call.sink, call.start)
            valid == /\ call.source # call.sink
                     /\ call.source \in DOMAIN sim.accounts
                     /\ call.sink \in DOMAIN sim.accounts
        IN  /\ (call.fn = "single" /\ valid) => call.result.ok
            /\ call.fn = "repeating" => (~call.result.ok <=> ~single.ok)
            /\ call.fn = "repeating_until" =>
                   (~call.result.ok <=> (~single.ok \/ call.end < call.start))

\* repeating_until accepted an end date equal to the start date.
C6_Witness ==
    /\ call.fn = "repeating_until"
    /\ call.end = call.start
    /\ call.result.ok

\* C7: occurs(d) is false for every d before the start date, and for every d
\* on or after the end date of a transaction that has one, whatever its
\* repetition.
C7_StartInclusiveEndExclusive ==
    query.asked =>
        /\ query.date < CalledTx.start => ~query.result
        /\ (CalledTx.end.some /\ query.date >= CalledTx.end.date) => ~query.result

\* occurs was asked for the end date of a daily transaction that may occur.
C7_Witness ==
    /\ query.asked
    /\ CalledTx.rpt = "Daily"
    /\ CalledTx.end.some
    /\ CalledTx.end.date > CalledTx.start
    /\ query.date = CalledTx.end.date
    /\ ~query.result

\* C8: every Transaction a constructor returns occurs on at least one date.
C8_OccursOnSomeDate ==
    (Called /\ call.result.ok) =>
        \E d \in QueryDates(CalledTx) : Occurs(CalledTx, d)

\* C9: a transaction built by single occurs on its start date and on no other
\* date.
C9_SingleOccursOnStartOnly ==
    (query.asked /\ call.fn = "single") =>
        (query.result <=> query.date = call.start)

C9_Witness ==
    /\ query.asked
    /\ call.fn = "single"
    /\ query.date > call.start
    /\ ~query.result

\* C10: a weekly transaction with start date S and no end date occurs exactly
\* on the dates S + 7n, n >= 0.
C10_WeeklyOccursEverySevenDays ==
    (query.asked /\ call.fn = "repeating" /\ call.rpt = "Weekly") =>
        (query.result <=>
            \E n \in 0..(Horizon + Lookback) : query.date = call.start + (7 * n))

C10_Witness ==
    /\ query.asked
    /\ call.fn = "repeating"
    /\ call.rpt = "Weekly"
    /\ query.date = call.start + 14
    /\ query.result

\* Whether d is the day-th day of a month that has such a day.
IsDayOfSomeMonth(d, day) ==
    \E y \in (YearOf(d) - 1)..(YearOf(d) + 1), m \in 1..12 :
        day <= DaysInMonth(y, m) /\ d = FromYmd(y, m, day)

DaysInYear(y) == IF IsLeapYear(y) THEN 366 ELSE 365

\* Whether d is the ord-th day of a year that has such a day.
IsDayOfSomeYear(d, ord) ==
    \E y \in (YearOf(d) - 1)..(YearOf(d) + 1) :
        ord <= DaysInYear(y) /\ d = DaysBeforeYear(y) + ord

----------------------------------------------------------------------------
(* Further claims about the iterator, checked under Spec. *)

\* The transactions applied by the k-th call of next that have account a as
\* source or sink.
Touching(k, a) ==
    {i \in SeqRange(applied[k]) :
        sim.transactions[i].source = a \/ sim.transactions[i].sink = a}

\* In the k-th call of next, account a, whose out_charge is -1.0 and whose
\* interest is 0, is the source of one applied transaction of positive value
\* and of no other applied transaction, and the sink of none.
SoleBonusSource(k, a) ==
    /\ sim.accounts[a].out_charge = -100
    /\ sim.accounts[a].interest = 0
    /\ Cardinality(Touching(k, a)) = 1
    /\ \A i \in Touching(k, a) :
           sim.transactions[i].source = a /\ sim.transactions[i].value > 0

\* C16 as stated: an account with out_charge -1.0 that is the source of an
\* occurring transaction of positive value has its value increased by it.
C16_AsStated ==
    \A k \in 1..Len(emitted) : \A a \in DOMAIN sim.accounts :
        SoleBonusSource(k, a) => emitted[k].values[a] > SnapshotBefore(k)[a]

\* C16, amended: such an account's value is left unchanged by the
\* transaction: 1 + out_charge is 0, so nothing is taken from the source.
C16_BonusSourceUnchanged ==
    \A k \in 1..Len(emitted) : \A a \in DOMAIN sim.accounts :
        SoleBonusSource(k, a) => emitted[k].values[a] = SnapshotBefore(k)[a]

\* The Employer account was the source of an applied transaction whose sink
\* received the amount.
C16_Witness ==
    \E k \in 1..Len(emitted) : \E a \in DOMAIN sim.accounts :
        /\ SoleBonusSource(k, a)
        /\ \E i \in Touching(k, a) :
               LET t == sim.transactions[i]
               IN  /\ Cardinality(Touching(k, t.sink)) = 1
                   /\ sim.accounts[t.sink].interest = 0
                   /\ emitted[k].values[t.sink] = SnapshotBefore(k)[t.sink] + t.value

\* C17: every call of next applies the daily update once to every account,
\* touched by a transaction of that call or not, and after all the transfers
\* of the call: the update is computed on the balance the transfers left.
C17_UpdateOnceAfterTransfers ==
    \A k \in 1..Len(emitted) :
        LET before == SnapshotBefore(k)
            after == ApplyAll(sim, before, applied[k]).values
        IN  \A a \in DOMAIN sim.accounts :
                /\ a \in DOMAIN emitted[k].values
                /\ emitted[k].values[a] = Update(sim.accounts[a], after[a])
                /\ Touching(k, a) = {} =>
                       emitted[k].values[a] = Update(sim.accounts[a], before[a])

\* A call of next paid into the account that earns interest, and the interest
\* of the day is that of the new balance.
C17_Witness ==
    \E k \in 1..Len(emitted) : \E a \in DOMAIN sim.accounts :
        /\ sim.accounts[a].interest > 0
        /\ \E i \in Touching(k, a) : sim.transactions[i].sink = a
        /\ \E b \in DOMAIN sim.accounts : Touching(k, b) = {}
        /\ emitted[k].values[a] - SnapshotBefore(k)[a] >
               (Update(sim.accounts[a], SnapshotBefore(k)[a]) - SnapshotBefore(k)[a])
                   + (Cardinality(Touching(k, a)) * 50000)

\* C18: in every state of the iterator the accounts of the value snapshot are
\* the accounts of the specification, in the emitted snapshots too; with the
\* transactions constructed against that mapping every lookup next makes
\* succeeds, and the failure on a missing account is not reached.
C18_SnapshotKeysAreAccountKeys ==
    /\ pc = "iter" =>
           /\ DOMAIN values = DOMAIN sim.accounts
           /\ \A i \in 1..Len(sim.transactions) :
                  /\ sim.transactions[i].source \in DOMAIN values
                  /\ sim.transactions[i].sink \in DOMAIN values
    /\ \A k \in 1..Len(emitted) : DOMAIN emitted[k].values = DOMAIN sim.accounts
    /\ pc # "panic_unwrap"

C18_Witness ==
    /\ pc = "iter"
    /\ DOMAIN sim.accounts = {0, 1, 2, 3}
    /\ Len(emitted) >= 2
    /\ \E i \in SeqRange(applied[2]) : sim.transactions[i].source = 2
    /\ DOMAIN values = {0, 1, 2, 3}

\* C20: a transaction that does not repeat, with date T, is applied by the
\* call of next numbered T - start + 1, which emits T + 1, and by no other
\* call; it is never applied when T is before the simulation's start.
C20_SingleAppliedInOneStep ==
    \A i \in 1..Len(sim.transactions) :
        sim.transactions[i].rpt = "None" =>
            \A k \in 1..Len(emitted) :
                /\ i \in SeqRange(applied[k]) <=>
                       k = sim.transactions[i].start - sim.start + 1
                /\ i \in SeqRange(applied[k]) =>
                       emitted[k].date = sim.transactions[i].start + 1
                /\ sim.transactions[i].start < sim.start =>
                       i \notin SeqRange(applied[k])

\* An iterator went past the date of one single transaction and began after
\* the date of another.
C20_Witness ==
    /\ Len(emitted) >= 3
    /\ \E i, j \in 1..Len(sim.transactions) :
           /\ sim.transactions[i].rpt = "None"
           /\ sim.transactions[i].start = sim.start + 1
           /\ i \in SeqRange(applied[2])
           /\ i \notin SeqRange(applied[3])
           /\ sim.transactions[j].rpt = "None"
           /\ sim.transactions[j].start < sim.start

----------------------------------------------------------------------------
(* The claims about several iterators, checked under SpecTwo. *)

Shorter(a, b) == IF a < b THEN a ELSE b

\* The steps both iterators have taken.
CommonSteps == 1..Shorter(Len(iters[1].emitted), Len(iters[2].emitted))

\* The transactions of s occurring on d that touch account a.
TouchingOn(s, d, a) ==
    {i \in 1..Len(s.transactions) :
        /\ Occurs(s.transactions[i], d)
        /\ a \in {s.transactions[i].source, s.transactions[i].sink}}

\* C13: two simulations that differ only in the order of their transactions
\* emit the same (snapshot, date) at every step, also at the steps where
\* several transactions touch the same account on the same date.
C13_TransactionOrderIrrelevant ==
    (/\ iters[1].made
     /\ iters[2].made
     /\ iters[1].sim.transactions # iters[2].sim.transactions)
        => \A k \in CommonSteps : iters[1].emitted[k] = iters[2].emitted[k]

\* Two iterators over differently ordered transactions both went through a
\* day on which two transactions touched a common account, one paying into
\* it what the other took out of it.
C13_Witness ==
    /\ iters[1].made
    /\ iters[2].made
    /\ iters[1].sim.transactions # iters[2].sim.transactions
    /\ Len(iters[1].emitted) >= 2
    /\ Len(iters[2].emitted) >= 2
    /\ \E a \in DOMAIN iters[1].sim.accounts :
           \E i, j \in TouchingOn(iters[1].sim, iters[1].sim.start, a) :
               /\ iters[1].sim.transactions[i].sink = a
               /\ iters[1].sim.transactions[j].source = a

\* C14: two iterators made from equal specifications (the same accounts,
\* transactions and start) emit the same (snapshot, date) at step k, for
\* every k, whatever order the accounts are updated in.
C14_EqualSpecificationsEmitEqually ==
    (/\ iters[1].made
     /\ iters[2].made
     /\ iters[1].sim = iters[2].sim)
        => \A k \in CommonSteps : iters[1].emitted[k] = iters[2].emitted[k]

\* Two iterators of one specification, with an account bearing interest among
\* accounts bearing none, both took three steps.
C14_Witness ==
    /\ iters[1].made
    /\ iters[2].made
    /\ iters[1].sim = iters[2].sim
    /\ Len(iters[1].sim.transactions) >= 1
    /\ Len(iters[1].emitted) >= 3
    /\ Len(iters[2].emitted) >= 3
    /\ \E a, b \in DOMAIN iters[1].sim.accounts :
           /\ iters[1].sim.accounts[a].interest # 0
           /\ iters[1].sim.accounts[b].interest = 0
           /\ iters[1].emitted[3].values[a] # InitialValues(iters[1].sim)[a]

\* C15: a call of next on one iterator leaves the other iterator as it was
\* (date, values, specification), leaves the caller's specification and the
\* base specification as they were, and emits what the caller alone would
\* emit: the day's result on its own values and date, and the day after.
C15_IteratorsIndependent ==
    [][\A i \in {1, 2} :
          (iters[i].made /\ Len(iters'[i].emitted) = Len(iters[i].emitted) + 1) =>
              /\ iters'[3 - i] = iters[3 - i]
              /\ iters'[i].sim = iters[i].sim
              /\ sim' = sim
              /\ iters'[i].emitted[Len(iters'[i].emitted)] =
                     [values |-> DayResult(iters[i].sim, iters[i].values,
                                           iters[i].date),
                      date |-> iters[i].date + 1]
              /\ iters'[i].values = iters'[i].emitted[Len(iters'[i].emitted)].values
              /\ iters'[i].date = iters[i].date + 1
              /\ SubSeq(iters'[i].emitted, 1, Len(iters[i].emitted)) =
                     iters[i].emitted]_vars

\* The two iterators were driven in turns and stand at different dates with
\* different values.
C15_Witness ==
    /\ iters[1].made
    /\ iters[2].made
    /\ Len(iters[1].emitted) >= 1
    /\ Len(iters[2].emitted) >= 2
    /\ iters[1].date # iters[2].date
    /\ iters[1].values # iters[2].values
    /\ iters[1].values # InitialValues(iters[1].sim)

RECURSIVE SumOver(_, _)
SumOver(vals, keys) ==
    IF keys = {} THEN 0
    ELSE LET a == CHOOSE x \in keys : TRUE
         IN  vals[a] + SumOver(vals, keys \ {a})

Total(vals) == SumOver(vals, DOMAIN vals)

FreeOfRates(s) ==
    \A a \in DOMAIN s.accounts :
        /\ s.accounts[a].interest = 0
        /\ s.accounts[a].out_charge = 0
        /\ s.accounts[a].in_charge = 0

============================================================================
